---- MODULE Spec2Model ----
(***************************************************************************)
(* Model of app.py: a Flask endpoint GET / that walks the MONGO_LIST, runs *)
(* mongodump for each entry, uploads the archive to a GCS bucket, notifies *)
(* a Slack webhook and reports one result per entry.                       *)
(*                                                                         *)
(* The external systems are modelled by their observable effects: the     *)
(* /tmp file system (fs), the bucket (bucket), the wall clock (now) and,   *)
(* per request, the sequence of external calls it has made (log).          *)
(***************************************************************************)
EXTENDS Integers, Sequences, FiniteSets, TLC

\* ---------------------------------------------------------------- bounds
MaxLen == 2          \* longest MONGO_LIST array drawn in Init
MaxClock == 1        \* the UTC clock runs over the seconds 0..MaxClock
MaxConcLen == 1      \* longest MONGO_LIST array when two requests overlap

\* ------------------------------------------------------------ JSON values
\* Python's None: the value of an unset environment variable, of a missing
\* dict key and of JSON null.  No JSON string of the model equals it.
None == "None"

\* Python truthiness of a str-or-None value: `not v`.
Falsy(v) == v = None \/ v = ""

Obj(name, uri) == [type |-> "object", name |-> name, uri |-> uri]
Num == [type |-> "number", name |-> None, uri |-> None]
Arr(items) == [type |-> "array", items |-> items]

Names == {None, "", "a", "b"}
Uris == {None, "", "u"}

\* Array elements: objects with a name and/or a uri missing or empty,
\* complete objects, and one JSON value that is not an object.
Entries ==
    {Obj(n, "u") : n \in Names} \cup {Obj("a", u) : u \in Uris} \cup {Num}

SeqsUpTo(S, n) == UNION {[1..k -> S] : k \in 0..n}

\* The text of the MONGO_LIST environment variable.
RawUnset == [kind |-> "unset"]
RawEmpty == [kind |-> "empty"]
RawMalformed == [kind |-> "malformed"]
RawJson(v) == [kind |-> "json", value |-> v]

RawConfigs(n) ==
    {RawUnset, RawEmpty, RawMalformed, RawJson(Obj("a", "u")), RawJson(Num)}
        \cup {RawJson(Arr(s)) : s \in SeqsUpTo(Entries, n)}

Requests == {1, 2}

VARIABLES
    mongo_list_raw,  \* os.environ.get("MONGO_LIST"), read at import
    bucket_name,     \* os.environ.get("GCS_BUCKET"), read at import
    webhook_url,     \* os.environ.get("SLACK_WEBHOOK_URL")
    now,             \* the UTC clock, in seconds
    fs,              \* /tmp: dump path -> the backup <<request, index>> that wrote it
    bucket,          \* the GCS bucket: blob path -> the backup whose archive it holds
    pc,              \* per request: where its handler stands
    mongo_list,      \* per request: the parsed list
    idx,             \* per request: index of the entry being processed
    cur,             \* per request: locals of process_database_backup
    results,         \* per request: the results list
    log,             \* per request: the external calls made so far
    resp             \* per request: the HTTP response, once sent

vars == <<mongo_list_raw, bucket_name, webhook_url, now, fs, bucket, pc,
          mongo_list, idx, cur, results, log, resp>>

env == <<mongo_list_raw, bucket_name, webhook_url>>

\* ------------------------------------------------------- pure functions
get_current_timestamp(t) == t

\* f"{database_name}-{timestamp}.gz": the two parts of the name are kept apart.
generate_backup_filename(database_name, t) ==
    <<database_name, get_current_timestamp(t)>>

\* f"/tmp/{filename}"
DumpPath(filename) == <<"/tmp", filename>>

\* f"backups/{name}/{filename}"
BlobPath(name, filename) == <<"backups", name, filename>>

\* f"gs://{bucket_name}/{blob_path}"
GcsUrl(bkt, blob_path) == <<"gs://", bkt, blob_path>>

\* json.loads: a value, or JSONDecodeError.
json_loads(raw) ==
    IF raw.kind = "json" THEN [ok |-> TRUE, value |-> raw.value]
    ELSE [ok |-> FALSE, value |-> Num]

\* Faulty variant: the isinstance check reports no error.
parse_mongo_config_unchecked(raw) ==
    IF raw.kind \in {"unset", "empty"}
    THEN [list |-> <<>>, error |-> "Missing MONGO_LIST env var"]
    ELSE LET parsed == json_loads(raw) IN
         IF ~parsed.ok
         THEN [list |-> <<>>, error |-> "Invalid MONGO_LIST JSON format"]
         ELSE IF parsed.value.type # "array"
         THEN [list |-> <<>>, error |-> None]
         ELSE [list |-> parsed.value.items, error |-> None]

\* parse_mongo_config: (list, error).  The exception text that follows
\* "Invalid MONGO_LIST JSON format" is left out.
parse_mongo_config(raw) ==
    IF raw.kind \in {"unset", "empty"}
    THEN [list |-> <<>>, error |-> "Missing MONGO_LIST env var"]
    ELSE LET parsed == json_loads(raw) IN
         IF ~parsed.ok
         THEN [list |-> <<>>, error |-> "Invalid MONGO_LIST JSON format"]
         ELSE IF parsed.value.type # "array"
         THEN [list |-> <<>>, error |-> "MONGO_LIST must be a JSON array"]
         ELSE [list |-> parsed.value.items, error |-> None]

\* One external call of a request: op, the entry it belongs to (0: none),
\* whether it succeeded, the path it touched and, for an upload, the backup
\* whose archive was read.
Event(op, i, ok, path, src) ==
    [op |-> op, idx |-> i, ok |-> ok, path |-> path, src |-> src]

\* send_slack_notification: the calls it adds to a request's log.
send_slack_notification(url, i) ==
    IF Falsy(url) THEN <<>>
    ELSE <<Event("webhook", i, TRUE, <<>>, <<>>)>>

\* entry.get exists only on a dict.
HasGet(entry) == entry.type = "object"

\* Faulty variant: only the name is tested.
MissingName(entry) == Falsy(entry.name)

\* `not name or not uri`
MissingNameOrUri(entry) == Falsy(entry.name) \/ Falsy(entry.uri)

SkippedResult(entry) ==
    [name |-> IF Falsy(entry.name) THEN "<no-name>" ELSE entry.name,
     status |-> "skipped", reason |-> "missing name or uri"]

ErrorResult(name, what) ==
    [name |-> name, status |-> "error", reason |-> <<what, name>>]

OkResult(name, gcs_url) == [name |-> name, status |-> "ok", gcs |-> gcs_url]

\* What create_mongodb_dump does with the outcome of subprocess.run.
\* "ok": exit status 0; "failed": CalledProcessError; "timeout":
\* TimeoutExpired; "raised": any other exception, which create_mongodb_dump
\* lets through.
DumpOutcomes == {"ok", "failed", "timeout", "raised"}

\* Faulty variant: the except clauses return True as well.
DumpReturnsAlways(outcome) == TRUE

DumpReturns(outcome) == outcome = "ok"
DumpRaises(outcome) == outcome = "raised"

\* Faulty variant: the except clause returns True as well.
UploadReturnsAlways(stored) == TRUE

\* upload_to_gcs: True when the blob was stored, False on any exception.
upload_to_gcs(stored) == stored

\* File-system operations.
WriteFile(files, path, by) ==
    [p \in DOMAIN files \cup {path} |-> IF p = path THEN by ELSE files[p]]
RemoveFile(files, path) == [p \in DOMAIN files \ {path} |-> files[p]]

\* Faulty variant: os.remove is never called.
cleanup_temp_file_keeps(files, path, removed) == files

\* cleanup_temp_file: the file system afterwards, given whether os.remove
\* succeeds.
cleanup_temp_file(files, path, removed) ==
    IF path \in DOMAIN files /\ removed THEN RemoveFile(files, path) ELSE files

NoLocals == [name |-> None, dump_path |-> <<>>, blob_path |-> <<>>,
             pending |-> <<>>]

\* ------------------------------------------------------------------ Init
InitRequest(live) ==
    /\ now = 0
    /\ fs = <<>>
    /\ bucket = <<>>
    /\ pc = [r \in Requests |-> IF r \in live THEN "received" ELSE "absent"]
    /\ mongo_list = [r \in Requests |-> <<>>]
    /\ idx = [r \in Requests |-> 0]
    /\ cur = [r \in Requests |-> NoLocals]
    /\ results = [r \in Requests |-> <<>>]
    /\ log = [r \in Requests |-> <<>>]
    /\ resp = [r \in Requests |-> [code |-> 0, body |-> <<>>]]

\* One request, any configuration.
Init ==
    /\ mongo_list_raw \in RawConfigs(MaxLen)
    /\ bucket_name \in {None, "", "bkt"}
    /\ webhook_url \in {None, "", "hook"}
    /\ InitRequest({1})

\* Two overlapping requests over one valid configuration.
InitConc ==
    /\ mongo_list_raw \in
           {RawJson(Arr(s)) : s \in SeqsUpTo({Obj("a", "u")}, MaxConcLen)}
    /\ bucket_name = "bkt"
    /\ webhook_url \in {None, "hook"}
    /\ InitRequest(Requests)

\* --------------------------------------------------------------- actions
\* The end of process_database_backup and of one loop iteration: the result
\* is appended and the loop goes on, or the list is over and jsonify(results)
\* is returned.
Finish(r, result, calls) ==
    LET rs == Append(results[r], result) IN
    /\ results' = [results EXCEPT ![r] = rs]
    /\ log' = [log EXCEPT ![r] = @ \o calls]
    /\ cur' = [cur EXCEPT ![r] = NoLocals]
    /\ IF idx[r] < Len(mongo_list[r])
       THEN /\ idx' = [idx EXCEPT ![r] = @ + 1]
            /\ pc' = [pc EXCEPT ![r] = "entry"]
            /\ resp' = resp
       ELSE /\ idx' = idx
            /\ pc' = [pc EXCEPT ![r] = "done"]
            /\ resp' = [resp EXCEPT ![r] = [code |-> 200, body |-> rs]]

\* A response that ends the request before or outside the loop.
Respond(r, code, body, calls) ==
    /\ pc' = [pc EXCEPT ![r] = "done"]
    /\ resp' = [resp EXCEPT ![r] = [code |-> code, body |-> body]]
    /\ log' = [log EXCEPT ![r] = @ \o calls]

\* backup_all_databases up to the loop.  storage.Client() is taken to find
\* its credentials.
Start(r) ==
    /\ pc[r] = "received"
    /\ LET cfg == parse_mongo_config(mongo_list_raw) IN
       IF cfg.error # None
       THEN /\ Respond(r, 500, cfg.error, send_slack_notification(webhook_url, 0))
            /\ UNCHANGED <<mongo_list, idx>>
       ELSE IF Falsy(bucket_name)
       THEN /\ Respond(r, 500, "Missing GCS_BUCKET env var",
                       send_slack_notification(webhook_url, 0))
            /\ UNCHANGED <<mongo_list, idx>>
       ELSE /\ mongo_list' = [mongo_list EXCEPT ![r] = cfg.list]
            /\ IF cfg.list = <<>>
               THEN /\ Respond(r, 200, <<>>, <<Event("client", 0, TRUE, <<>>, <<>>)>>)
                    /\ idx' = idx
               ELSE /\ pc' = [pc EXCEPT ![r] = "entry"]
                    /\ idx' = [idx EXCEPT ![r] = 1]
                    /\ log' = [log EXCEPT ![r] = @ \o <<Event("client", 0, TRUE, <<>>, <<>>)>>]
                    /\ resp' = resp
    /\ UNCHANGED <<env, now, fs, bucket, cur, results>>

\* process_database_backup up to the dump: lines 94-104.
Entry(r) ==
    /\ pc[r] = "entry"
    /\ LET entry == mongo_list[r][idx[r]]
           call == <<Event("call", idx[r], TRUE, <<>>, <<>>)>> IN
       IF ~HasGet(entry)
       THEN \* AttributeError, raised outside every try: Flask answers 500
            /\ Respond(r, 500, "Internal Server Error", call)
            /\ UNCHANGED <<idx, cur, results>>
       ELSE IF MissingNameOrUri(entry)
       THEN Finish(r, SkippedResult(entry),
                   call \o send_slack_notification(webhook_url, idx[r]))
       ELSE LET filename == generate_backup_filename(entry.name, now) IN
            /\ cur' = [cur EXCEPT ![r] =
                          [name |-> entry.name,
                           dump_path |-> DumpPath(filename),
                           blob_path |-> BlobPath(entry.name, filename),
                           pending |-> <<>>]]
            /\ pc' = [pc EXCEPT ![r] = "dump"]
            /\ log' = [log EXCEPT ![r] = @ \o call]
            /\ UNCHANGED <<idx, results, resp>>
    /\ UNCHANGED <<env, now, fs, bucket, mongo_list>>

\* create_mongodb_dump and the branch on its result: lines 108-111, 126-127.
\* A mongodump that exits non-zero may or may not have created the archive;
\* one that is killed at the timeout has; one that could not be started
\* (the exception is not one create_mongodb_dump catches) has not.
Dump(r) ==
    /\ pc[r] = "dump"
    /\ \E outcome \in DumpOutcomes, wrote \in BOOLEAN :
        /\ outcome \in {"ok", "timeout"} => wrote
        /\ outcome = "raised" => ~wrote
        /\ fs' = IF wrote THEN WriteFile(fs, cur[r].dump_path, <<r, idx[r]>>) ELSE fs
        /\ log' = [log EXCEPT ![r] =
                      Append(@, Event("dump", idx[r], outcome = "ok",
                                      cur[r].dump_path, <<>>))]
        /\ IF DumpRaises(outcome)
           THEN /\ cur' = [cur EXCEPT ![r].pending =
                              ErrorResult(cur[r].name, "Unexpected error backing up")]
                /\ pc' = [pc EXCEPT ![r] = "notify"]
           ELSE IF DumpReturns(outcome)
           THEN /\ cur' = cur
                /\ pc' = [pc EXCEPT ![r] = "upload"]
           ELSE /\ cur' = [cur EXCEPT ![r].pending =
                              ErrorResult(cur[r].name, "Failed to create dump for")]
                /\ pc' = [pc EXCEPT ![r] = "notify"]
    /\ UNCHANGED <<env, now, bucket, mongo_list, idx, results, resp>>

\* upload_to_gcs and the branch on its result: lines 114-124.  Uploading a
\* file that is not there raises inside upload_to_gcs, which returns False.
Upload(r) ==
    /\ pc[r] = "upload"
    /\ \E sent \in BOOLEAN :
        LET there == cur[r].dump_path \in DOMAIN fs
            stored == there /\ sent
            src == IF there THEN fs[cur[r].dump_path] ELSE <<>> IN
        /\ bucket' = IF stored THEN WriteFile(bucket, cur[r].blob_path, src) ELSE bucket
        /\ log' = [log EXCEPT ![r] =
                      Append(@, Event("upload", idx[r], stored, cur[r].blob_path, src))]
        /\ cur' = [cur EXCEPT ![r].pending =
                      IF upload_to_gcs(stored)
                      THEN OkResult(cur[r].name, GcsUrl(bucket_name, cur[r].blob_path))
                      ELSE ErrorResult(cur[r].name, "Failed to upload")]
        /\ pc' = [pc EXCEPT ![r] = "notify"]
    /\ UNCHANGED <<env, now, fs, mongo_list, idx, results, resp>>

\* The send_slack_notification of lines 110, 116, 122 and 128.  A failed
\* post is caught and printed: it changes nothing the program keeps.
Notify(r) ==
    /\ pc[r] = "notify"
    /\ log' = [log EXCEPT ![r] = @ \o send_slack_notification(webhook_url, idx[r])]
    /\ pc' = [pc EXCEPT ![r] = "cleanup"]
    /\ UNCHANGED <<env, now, fs, bucket, mongo_list, idx, cur, results, resp>>

\* The finally clause, then the return to the loop: lines 131-132, 154.
Cleanup(r) ==
    /\ pc[r] = "cleanup"
    /\ \E removed \in BOOLEAN :
        LET there == cur[r].dump_path \in DOMAIN fs IN
        /\ ~there => removed
        /\ fs' = cleanup_temp_file(fs, cur[r].dump_path, removed)
        /\ Finish(r, cur[r].pending,
                  <<Event("exists", idx[r], there, cur[r].dump_path, <<>>)>>
                  \o IF there
                     THEN <<Event("remove", idx[r], removed, cur[r].dump_path, <<>>)>>
                     ELSE <<>>)
    /\ UNCHANGED <<env, now, bucket, mongo_list>>

\* A second of wall-clock time passes.
Tick ==
    /\ now < MaxClock
    /\ now' = now + 1
    /\ UNCHANGED <<env, fs, bucket, pc, mongo_list, idx, cur, results, log, resp>>

Next ==
    \/ \E r \in Requests : Start(r)
    \/ \E r \in Requests : Entry(r)
    \/ \E r \in Requests : Dump(r)
    \/ \E r \in Requests : Upload(r)
    \/ \E r \in Requests : Notify(r)
    \/ \E r \in Requests : Cleanup(r)
    \/ Tick

Spec == Init /\ [][Next]_vars

SpecConc == InitConc /\ [][Next]_vars

\* ---------------------------------------------------------------- claims
\* Positions in request r's log of the calls `op` made for entry i.
Calls(r, op, i) ==
    {k \in 1..Len(log[r]) : log[r][k].op = op /\ log[r][k].idx = i}

\* The configuration is a JSON array and a bucket is named.
ValidConfig ==
    /\ mongo_list_raw.kind = "json"
    /\ mongo_list_raw.value.type = "array"
    /\ bucket_name \notin {None, ""}

ConfiguredList == mongo_list_raw.value.items

\* The element is an object with a non-empty name and a non-empty uri.
HasNameAndUri(e) ==
    e.type = "object" /\ e.name \notin {None, ""} /\ e.uri \notin {None, ""}

\* The element is an object that lacks a name or a uri.
LacksNameOrUri(e) ==
    e.type = "object" /\ (e.name \in {None, ""} \/ e.uri \in {None, ""})

DumpSucceeded(r, i) == \E k \in Calls(r, "dump", i) : log[r][k].ok
UploadSucceeded(r, i) == \E k \in Calls(r, "upload", i) : log[r][k].ok

\* C1: with a JSON array in MONGO_LIST and GCS_BUCKET set, a finished request
\* has answered with a list of one result per array element, in array order,
\* each with status ok, error or skipped.
C1_OneResultPerElement ==
    \A r \in Requests :
        (pc[r] = "done" /\ ValidConfig) =>
            /\ resp[r].code = 200
            /\ Len(resp[r].body) = Len(ConfiguredList)
            /\ \A i \in 1..Len(ConfiguredList) :
                /\ resp[r].body[i].status \in {"ok", "error", "skipped"}
                /\ ConfiguredList[i].type = "object" =>
                       resp[r].body[i].name =
                           IF ConfiguredList[i].name \in {None, ""}
                           THEN "<no-name>"
                           ELSE ConfiguredList[i].name

\* C2: every entry with a name and a uri has its dump attempted exactly once
\* by the time the request has finished (and never twice before), whatever
\* happened to the entries before it.
C2_EveryDumpAttemptedOnce ==
    \A r \in Requests :
        ValidConfig =>
            \A i \in 1..Len(ConfiguredList) :
                HasNameAndUri(ConfiguredList[i]) =>
                    /\ Cardinality(Calls(r, "dump", i)) <= 1
                    /\ pc[r] = "done" => Cardinality(Calls(r, "dump", i)) = 1

\* C3: a result is ok exactly when the entry's dump and its upload both
\* succeeded, and then its gcs value is gs://<bucket>/backups/<name>/<file>
\* for the blob path uploaded to and the file name dumped to; every other
\* result of an entry with name and uri is an error with a reason.
C3_OkIffDumpedAndUploaded ==
    \A r \in Requests :
        \A i \in 1..Len(results[r]) :
            LET res == results[r][i]
                e == mongo_list[r][i] IN
            /\ res.status = "ok" <=> (DumpSucceeded(r, i) /\ UploadSucceeded(r, i))
            /\ res.status = "ok" =>
                   \E d \in Calls(r, "dump", i), u \in Calls(r, "upload", i) :
                       /\ log[r][u].ok
                       /\ log[r][u].path =
                              <<"backups", e.name, log[r][d].path[2]>>
                       /\ log[r][d].path[2][1] = e.name
                       /\ res.gcs = <<"gs://", bucket_name, log[r][u].path>>
                       /\ log[r][u].path \in DOMAIN bucket
            /\ (HasNameAndUri(e) /\ res.status # "ok") =>
                   /\ res.status = "error"
                   /\ "reason" \in DOMAIN res
                   /\ res.name = e.name

C3_Witness ==
    \E i, j \in 1..Len(results[1]) :
        /\ results[1][i].status = "ok"
        /\ results[1][j].status = "error"
        /\ DumpSucceeded(1, j)

\* C4: an upload is attempted only after the same entry's dump has succeeded,
\* the calls of a request come in entry order, and when the dump of an entry
\* starts every earlier entry has its result, its notification (if a webhook
\* is configured) and, if it was dumped, its temp-file cleanup behind it.
C4_StepsOrdered ==
    \A r \in Requests :
        /\ \A k \in 1..Len(log[r]) :
            log[r][k].op = "upload" =>
                /\ \E d \in 1..(k - 1) :
                    /\ log[r][d].op = "dump"
                    /\ log[r][d].idx = log[r][k].idx
                    /\ log[r][d].ok
                /\ \A d \in 1..Len(log[r]) :
                    (log[r][d].op = "dump" /\ log[r][d].idx = log[r][k].idx)
                        => (d < k /\ log[r][d].ok)
        /\ \A j, k \in 1..Len(log[r]) :
            j < k => log[r][j].idx <= log[r][k].idx
        /\ \A k \in 1..Len(log[r]) :
            log[r][k].op = "dump" =>
                \A i \in 1..(log[r][k].idx - 1) :
                    /\ i <= Len(results[r])
                    /\ Calls(r, "dump", i) # {} =>
                           \E c \in Calls(r, "exists", i) : c < k
                    /\ (webhook_url \notin {None, ""}) =>
                           \E w \in Calls(r, "webhook", i) : w < k
        /\ pc[r] \in {"dump", "upload", "notify", "cleanup"} =>
               Len(results[r]) = idx[r] - 1

C4_Witness ==
    /\ UploadSucceeded(1, 1)
    /\ Calls(1, "dump", 2) # {}
    /\ webhook_url = "hook"
    /\ \E d \in Calls(1, "dump", 2) : ~log[1][d].ok

\* C5: with no webhook URL no webhook request is ever made; with one, a
\* finished request has made exactly one webhook request for a configuration
\* error and exactly one for every element of the list, and never two.
C5_OneWebhookPerEntry ==
    \A r \in Requests :
        /\ webhook_url \in {None, ""} =>
               \A k \in 1..Len(log[r]) : log[r][k].op # "webhook"
        /\ webhook_url \notin {None, ""} =>
               /\ (pc[r] = "done" /\ ~ValidConfig) =>
                      Cardinality(Calls(r, "webhook", 0)) = 1
               /\ ValidConfig =>
                      \A i \in 1..Len(ConfiguredList) :
                          /\ Cardinality(Calls(r, "webhook", i)) <= 1
                          /\ pc[r] = "done" =>
                                 Cardinality(Calls(r, "webhook", i)) = 1

\* C6: with MONGO_LIST unset, empty, malformed or not an array, or with
\* GCS_BUCKET missing, the request answers 500 with the error message, the
\* MONGO_LIST message first, and has created no storage client, started no
\* entry and touched neither /tmp nor the bucket; MONGO_LIST "[]" with a
\* bucket answers 200 with an empty list.
C6_FailsClosed ==
    \A r \in Requests :
        pc[r] = "done" =>
            /\ ~ValidConfig =>
                /\ resp[r].code = 500
                /\ resp[r].body =
                       IF mongo_list_raw.kind \in {"unset", "empty"}
                       THEN "Missing MONGO_LIST env var"
                       ELSE IF mongo_list_raw.kind = "malformed"
                       THEN "Invalid MONGO_LIST JSON format"
                       ELSE IF mongo_list_raw.value.type # "array"
                       THEN "MONGO_LIST must be a JSON array"
                       ELSE "Missing GCS_BUCKET env var"
                /\ \A k \in 1..Len(log[r]) :
                       log[r][k].op \notin {"client", "call", "dump", "upload"}
                /\ results[r] = <<>>
                /\ fs = <<>>
                /\ bucket = <<>>
            /\ (ValidConfig /\ ConfiguredList = <<>>) =>
                /\ resp[r].code = 200
                /\ resp[r].body = <<>>

C6_Witness ==
    /\ pc[1] = "done"
    /\ mongo_list_raw.kind = "json"
    /\ mongo_list_raw.value.type # "array"
    /\ bucket_name = None
    /\ webhook_url = "hook"
    /\ resp[1].code = 500

\* C7: an object that lacks a name or a uri gets the result skipped, "missing
\* name or uri", under its name or "<no-name>"; no dump, upload, existence
\* test or removal is made for it; and the run goes on to the next element.
C7_SkippedEntry ==
    \A r \in Requests :
        \A i \in 1..Len(mongo_list[r]) :
            LacksNameOrUri(mongo_list[r][i]) =>
                /\ \A k \in 1..Len(log[r]) :
                       log[r][k].idx = i =>
                           log[r][k].op \notin {"dump", "upload", "exists", "remove"}
                /\ i <= Len(results[r]) =>
                    /\ results[r][i].status = "skipped"
                    /\ results[r][i].reason = "missing name or uri"
                    /\ results[r][i].name =
                           IF mongo_list[r][i].name \in {None, ""}
                           THEN "<no-name>"
                           ELSE mongo_list[r][i].name
                    /\ i < Len(mongo_list[r]) =>
                        /\ idx[r] > i
                        /\ pc[r] = "done" => Calls(r, "call", i + 1) # {}
                /\ (pc[r] = "done" /\ Calls(r, "call", i) # {}) =>
                       i <= Len(results[r])
                /\ (idx[r] = i /\ pc[r] # "done") => pc[r] = "entry"

C7_Witness ==
    /\ pc[1] = "done"
    /\ Len(results[1]) = 2
    /\ results[1][1].status = "skipped"
    /\ results[1][1].name = "a"
    /\ results[1][2].status = "ok"

\* C8: every result of an entry with name and uri has the cleanup of its
\* dump file behind it, made after the entry's dump, upload and
\* notification; and once the request has answered, unless a removal failed,
\* /tmp holds no file written by the request.
C8_CleanupOnEveryPath ==
    \A r \in Requests :
        /\ \A i \in 1..Len(results[r]) :
            HasNameAndUri(mongo_list[r][i]) =>
                \E c \in Calls(r, "exists", i) :
                    /\ \A k \in 1..Len(log[r]) :
                           (log[r][k].idx = i /\
                            log[r][k].op \in {"dump", "upload", "webhook"})
                               => k < c
                    /\ \E d \in Calls(r, "dump", i) :
                           log[r][c].path = log[r][d].path
                    /\ log[r][c].ok => \E m \in Calls(r, "remove", i) : m > c
        /\ (pc[r] = "done" /\
            \A k \in 1..Len(log[r]) : log[r][k].op = "remove" => log[r][k].ok)
               => \A p \in DOMAIN fs : fs[p][1] # r

C8_Witness ==
    /\ pc[1] = "done"
    /\ Len(results[1]) = 2
    /\ results[1][1].status = "ok"
    /\ results[1][2].status = "error"
    /\ \E d \in Calls(1, "dump", 2) : ~log[1][d].ok
    /\ \E m \in Calls(1, "remove", 2) : log[1][m].ok
    /\ fs = <<>>

\* C9: backups do not interfere: a backup waiting to upload finds the
\* archive its own dump wrote, every upload read the archive of its own
\* dump, and no two successful uploads went to the same blob path.
C9_NoInterference ==
    /\ \A r \in Requests :
        pc[r] = "upload" =>
            /\ cur[r].dump_path \in DOMAIN fs
            /\ fs[cur[r].dump_path] = <<r, idx[r]>>
    /\ \A r \in Requests :
        \A k \in 1..Len(log[r]) :
            (log[r][k].op = "upload" /\ log[r][k].ok) =>
                log[r][k].src = <<r, log[r][k].idx>>
    /\ \A r1, r2 \in Requests :
        \A k1 \in 1..Len(log[r1]), k2 \in 1..Len(log[r2]) :
            (/\ log[r1][k1].op = "upload" /\ log[r1][k1].ok
             /\ log[r2][k2].op = "upload" /\ log[r2][k2].ok
             /\ <<r1, k1>> # <<r2, k2>>)
                => log[r1][k1].path # log[r2][k2].path
====
